---- MODULE Spec2Model ----
(***************************************************************************)
(* VannaManager (vanna_manager.py): the per-configuration registry of      *)
(* generator instances, its reset policy, and the                          *)
(* ContaminationPreventionVanna / NIMVanna wrappers (vanna_util.py).       *)
(*                                                                         *)
(* Threads are Python threads: a step of the model is one attribute read   *)
(* or write of the source, so that everything the interpreter may          *)
(* interleave is interleaved.  A pc label names the source line the thread *)
(* executes next (gi57 = get_instance, line 57).                           *)
(***************************************************************************)
EXTENDS Integers, Sequences, FiniteSets, TLC

\* ------------------------------------------------------------ bounds
Threads == {"t1", "t2"}
Keys == {"k1"}
MaxOps == 3          \* calls a thread makes in the concurrent specifications
MaxInst == 3         \* generator instances ever constructed
MaxTime == 5         \* reads of time.time()
MaxCount == 52       \* cap on query_count in the sequential specification
MaxLines == 4        \* lines of an LLM response given to submit_prompt

\* ------------------------------------------------- program constants
contamination_threshold == 50
GuardPeriod == 10
None == 0
NoThread == "none"
NoKey == "nokey"
NoLock == "nolock"
Unlimited == 0 - 1

InstIds == 1..MaxInst
LockIds == {"L0"} \cup Threads

\* ------------------------------------------------------------ text
\* A Python str is the sequence of its characters.
IsPrefixAt(p, s, i) == /\ i + Len(p) - 1 <= Len(s)
                       /\ \A j \in 1..Len(p) : s[i + j - 1] = p[j]

\* Python's  p in s  for strings.
Contains(s, p) == \E i \in 1..(Len(s) + 1) : IsPrefixAt(p, s, i)

Whitespace == {" ", "\n", "\t"}

\* Python's  not sql or sql.strip() == ""
IsBlank(s) == \A j \in 1..Len(s) : s[j] \in Whitespace

contamination_indicators ==
  << <<"n","o","t"," ","a","l","l","o","w","e","d"," ","t","o"," ","s","e","e"," ","t","h","e"," ","d","a","t","a">>,
     <<"d","a","t","a","b","a","s","e"," ","i","n","t","r","o","s","p","e","c","t","i","o","n">>,
     <<"E","r","r","o","r",":">>,
     <<"C","a","n","n","o","t"," ","g","e","n","e","r","a","t","e">>,
     <<"U","n","a","b","l","e"," ","t","o"," ","p","r","o","c","e","s","s">>,
     <<"I","n","v","a","l","i","d"," ","r","e","q","u","e","s","t">>,
     <<"{","'">>,
     <<"[","o","b","j","e","c","t"," ","O","b","j","e","c","t","]">>,
     <<"u","n","d","e","f","i","n","e","d">>,
     <<"n","u","l","l">> >>

is_contaminated_response(sql) ==
  \E n \in 1..Len(contamination_indicators) : Contains(sql, contamination_indicators[n])

\* ContaminationPreventionVanna.generate_sql, line 272: the phrases that make
\* the wrapper log a result as suspicious.
suspicious_indicators ==
  << <<"E","r","r","o","r",":">>, <<"C","a","n","n","o","t">>, <<"U","n","a","b","l","e">>, <<"I","n","v","a","l","i","d">> >>

is_suspicious(result) ==
  \E n \in 1..Len(suspicious_indicators) : Contains(result, suspicious_indicators[n])

\* What the underlying generator (VannaBase.generate_sql) may hand back.
OutSelect == <<"S","E","L","E","C","T"," ","1">>
OutEmpty == << >>
OutBlank == <<" "," ">>
OutNotAllowed == <<"E","r","r","o","r",":"," ","n","o","t"," ","a","l","l","o","w","e","d"," ","t","o"," ","s","e","e"," ","t","h","e"," ","d","a","t","a">>
OutCannotFind == <<"C","a","n","n","o","t"," ","f","i","n","d"," ","t","a","b","l","e"," ","t">>

Outputs == {"select", "empty", "blank", "notallowed", "cannotfind"}
Text(o) == CASE o = "select" -> OutSelect
             [] o = "empty" -> OutEmpty
             [] o = "blank" -> OutBlank
             [] o = "notallowed" -> OutNotAllowed
             [] o = "cannotfind" -> OutCannotFind
             [] OTHER -> << >>

\* The initialization catalog of initVanna, in the order it is trained:
\* the data source's own DDL, the fixed DDL statements, the example pairs.
Catalog == <<"schema_ddl", "fixed_ddl", "examples">>
CatalogSet == {Catalog[n] : n \in 1..Len(Catalog)}
\* What a caller may pass to train() in production.
LiveExamples == {"live_q"}

\* ------------------------------------------------------------ state
VARIABLES
  registry,               \* VannaManager._instances: the keys it holds
  initialized,            \* manager._initialized, per key
  vanna_instance,         \* manager.vanna_instance, per key (None or an instance)
  query_count,            \* manager.query_count, per key
  last_reset_time,        \* manager.last_reset_time, per key
  lock,                   \* manager.lock, per key: the Lock object it names
  lockOwner,              \* per Lock object: the thread holding it
  now,                    \* number of time.time() reads so far
  nextId,                 \* identity of the next instance constructed
  auto_train_enabled,     \* instance._auto_train_enabled
  strict_mode,            \* instance._strict_mode
  allow_llm_to_see_data,  \* instance.allow_llm_to_see_data
  blocked_train_attempts, \* instance._blocked_train_attempts
  store,                  \* the vector index persisted at vector_store_path
  pc,                     \* per thread: the line it executes next
  stack,                  \* per thread: where the calls in progress return to
  budget,                 \* per thread: calls it may still make
  loc,                    \* per thread: its local variables
  h,                      \* per thread: what is recorded of the call in progress
  mh                      \* per key: what is recorded of the manager's history

mgrVars == <<registry, initialized, vanna_instance, query_count, last_reset_time, lock>>
instVars == <<auto_train_enabled, strict_mode, allow_llm_to_see_data, blocked_train_attempts>>
vars == <<registry, initialized, vanna_instance, query_count, last_reset_time, lock,
          lockOwner, now, nextId, auto_train_enabled, strict_mode,
          allow_llm_to_see_data, blocked_train_attempts, store,
          pc, stack, budget, loc, h, mh>>

\* loc: mref = the manager the thread obtained, mylock = the Lock it holds,
\* held = the instance get_instance gave it, this = the instance a wrapper
\* method runs on, out = the generator's output, exc = the exception in
\* flight, tmp = a value read, ti = position in the catalog, op = the call.
NoLoc == [mref |-> NoKey, mylock |-> NoLock, held |-> None, this |-> None,
          out |-> "", exc |-> "", tmp |-> 0, ti |-> 0, op |-> ""]

\* h: the manager as it was when the call took the lock, and what the call
\* has done since.  For a call of train: flag = _auto_train_enabled was
\* True at some moment of the call, wrote = the call wrote to the index,
\* ret = the line it returned from, strict and blocked = _strict_mode and
\* _blocked_train_attempts as they were when it was called.
NoH == [inst |-> None, qc |-> 0, time |-> 0, resets |-> 0, gens |-> 0,
        raw |-> "", created |-> None, wrote |-> FALSE, flag |-> FALSE, ret |-> 0,
        strict |-> FALSE, blocked |-> 0, from |-> 0, store0 |-> {}]

\* mh: counted = generate_sql_safe calls past the instance check since the
\* counter was last zeroed; wasReset = _reset_instance has run; installs =
\* instances the manager has taken (line 64); idleGets = get_instance calls
\* returned since the last call of another method, idleFirst = what the
\* first of them returned; streak = generate_sql_safe calls in a row that
\* failed in generation (the generator raised or gave blank output),
\* streakResets = resets the error handler made during them; loads =
\* catalog entries the training phase has written to the store, phases =
\* training phases that ran to their end.
NoMH == [counted |-> 0, wasReset |-> FALSE, installs |-> 0,
         idleGets |-> 0, idleFirst |-> None, streak |-> 0, streakResets |-> 0,
         loads |-> 0, phases |-> 0, tracking |-> FALSE, trail |-> << >>]

\* The history of key k in m, extended by the manager's new usage count,
\* last-reset time and instance when the specification keeps the trail.
Trailed(m, k, q, l, i) ==
  IF m[k].tracking THEN [m EXCEPT ![k].trail = Append(@, <<q, l, i>>)] ELSE m

GenFailures == {"Empty", "GenError"}
Min(a, b) == IF a < b THEN a ELSE b

InitManagers ==
  /\ registry = Keys
  /\ initialized = [k \in Keys |-> TRUE]
  /\ vanna_instance = [k \in Keys |-> None]
  /\ query_count = [k \in Keys |-> 0]
  /\ last_reset_time = [k \in Keys |-> 1]
  /\ lock = [k \in Keys |-> "L0"]
  /\ lockOwner = [l \in LockIds |-> NoThread]
  /\ now = 1
  /\ mh = [k \in Keys |-> NoMH]

InitNoInstances ==
  /\ nextId = 1
  /\ auto_train_enabled = [i \in InstIds |-> FALSE]
  /\ strict_mode = [i \in InstIds |-> FALSE]
  /\ allow_llm_to_see_data = [i \in InstIds |-> FALSE]
  /\ blocked_train_attempts = [i \in InstIds |-> 0]
  /\ store = {}

InitThreads(b) ==
  /\ pc = [t \in Threads |-> "idle"]
  /\ stack = [t \in Threads |-> << >>]
  /\ budget = b
  /\ h = [t \in Threads |-> NoH]

\* The manager of each key has been constructed and every thread holds it.
Init ==
  /\ InitManagers
  /\ InitNoInstances
  /\ InitThreads([t \in Threads |-> MaxOps])
  /\ loc = [t \in Threads |-> [NoLoc EXCEPT !.mref = "k1"]]

\* ------------------------------------------------------------ helpers
K(t) == loc[t].mref
Dec(b) == IF b = Unlimited THEN Unlimited ELSE b - 1
Free(l) == lockOwner[l] = NoThread

\* A call starts: the thread is between calls and may still make one.
Starts(t) ==
  /\ pc[t] = "idle"
  /\ budget[t] # 0
  /\ budget' = [budget EXCEPT ![t] = Dec(@)]

\* Variant of the with statement that does not wait for the Lock: what C4
\* rules out.
LocksNoWait(t, k, name) ==
  /\ k # NoKey
  /\ lockOwner' = [lockOwner EXCEPT ![lock[k]] = t]
  /\ loc' = [loc EXCEPT ![t].mylock = lock[k], ![t].op = name]
  /\ h' = [h EXCEPT ![t] = [NoH EXCEPT !.inst = vanna_instance[k],
                                       !.qc = query_count[k],
                                       !.time = last_reset_time[k],
                                       !.store0 = store]]

\* with self.lock: the Lock object self.lock names now is taken, and the
\* manager as it is at that moment is recorded.
Locks(t, k, name) ==
  /\ k # NoKey
  /\ Free(lock[k])
  /\ lockOwner' = [lockOwner EXCEPT ![lock[k]] = t]
  /\ loc' = [loc EXCEPT ![t].mylock = lock[k], ![t].op = name]
  /\ h' = [h EXCEPT ![t] = [NoH EXCEPT !.inst = vanna_instance[k],
                                       !.qc = query_count[k],
                                       !.time = last_reset_time[k],
                                       !.store0 = store]]

\* An exception raised at the label a call returns to: generate_sql_safe's
\* try block (lines 133-155) catches what generate_sql raises.
HandlerOf(label) == IF label = "gs138" THEN "gs149" ELSE "exit"

\* ------------------------------------------------- VannaManager(key)
\* __new__, lines 28-34, the whole body under cls._lock.
CallNew(t) ==
  \E k \in Keys :
    /\ Starts(t)
    /\ registry' = registry \cup {k}
    /\ initialized' = IF k \in registry THEN initialized
                      ELSE [initialized EXCEPT ![k] = FALSE]
    /\ loc' = [loc EXCEPT ![t].mref = k, ![t].op = "new"]
    /\ pc' = [pc EXCEPT ![t] = "init38"]
    /\ UNCHANGED <<vanna_instance, query_count, last_reset_time, lock, lockOwner,
                   now, nextId, instVars, store, stack, h, mh>>

\* __init__, line 38: an initialized manager is left alone.
init38(t) ==
  /\ pc[t] = "init38"
  /\ pc' = [pc EXCEPT ![t] = IF initialized[K(t)] THEN "idle" ELSE "init42"]
  /\ loc' = [loc EXCEPT ![t].op = IF initialized[K(t)] THEN "" ELSE @]
  /\ UNCHANGED <<mgrVars, lockOwner, now, nextId, instVars, store, stack, budget, h, mh>>

\* __init__, line 42.
init42(t) ==
  /\ pc[t] = "init42"
  /\ vanna_instance' = [vanna_instance EXCEPT ![K(t)] = None]
  /\ pc' = [pc EXCEPT ![t] = "init43"]
  /\ UNCHANGED <<registry, initialized, query_count, last_reset_time, lock, lockOwner,
                 now, nextId, instVars, store, stack, budget, loc, h, mh>>

\* __init__, line 43.
init43(t) ==
  /\ pc[t] = "init43"
  /\ now < MaxTime
  /\ now' = now + 1
  /\ last_reset_time' = [last_reset_time EXCEPT ![K(t)] = now']
  /\ pc' = [pc EXCEPT ![t] = "init44"]
  /\ UNCHANGED <<registry, initialized, vanna_instance, query_count, lock, lockOwner,
                 nextId, instVars, store, stack, budget, loc, h, mh>>

\* __init__, line 44.
init44(t) ==
  /\ pc[t] = "init44"
  /\ query_count' = [query_count EXCEPT ![K(t)] = 0]
  /\ mh' = [mh EXCEPT ![K(t)].counted = 0]
  /\ pc' = [pc EXCEPT ![t] = "init46"]
  /\ UNCHANGED <<registry, initialized, vanna_instance, last_reset_time, lock, lockOwner,
                 now, nextId, instVars, store, stack, budget, loc, h>>

\* __init__, line 46: a new Lock object, named after the thread that made it.
init46(t) ==
  /\ pc[t] = "init46"
  /\ lock' = [lock EXCEPT ![K(t)] = t]
  /\ pc' = [pc EXCEPT ![t] = "init47"]
  /\ UNCHANGED <<registry, initialized, vanna_instance, query_count, last_reset_time,
                 lockOwner, now, nextId, instVars, store, stack, budget, loc, h, mh>>

\* __init__, line 47.
init47(t) ==
  /\ pc[t] = "init47"
  /\ initialized' = [initialized EXCEPT ![K(t)] = TRUE]
  /\ pc' = [pc EXCEPT ![t] = "idle"]
  /\ loc' = [loc EXCEPT ![t].op = ""]
  /\ UNCHANGED <<registry, vanna_instance, query_count, last_reset_time, lock, lockOwner,
                 now, nextId, instVars, store, stack, budget, h, mh>>

\* ------------------------------------------------- _reset_instance
\* Variant of lines 185-188 that leaves the instance in place: what C11
\* rules out.
rs188Keeps(t) ==
  /\ pc[t] = "rs188"
  /\ mh' = [mh EXCEPT ![K(t)].wasReset = TRUE]
  /\ pc' = [pc EXCEPT ![t] = "rs192"]
  /\ UNCHANGED <<mgrVars, lockOwner, now, nextId, instVars, store, stack, budget, loc, h>>

\* Lines 185-188.
\* Variant that deletes the persisted index as well: what C26 rules out.
rs188Wipes(t) ==
  /\ pc[t] = "rs188"
  /\ vanna_instance' = [vanna_instance EXCEPT ![K(t)] = None]
  /\ store' = {}
  /\ mh' = [mh EXCEPT ![K(t)].wasReset = TRUE]
  /\ pc' = [pc EXCEPT ![t] = "rs192"]
  /\ UNCHANGED <<registry, initialized, query_count, last_reset_time, lock, lockOwner,
                 now, nextId, instVars, stack, budget, loc, h>>

rs188(t) ==
  /\ pc[t] = "rs188"
  /\ vanna_instance' = [vanna_instance EXCEPT ![K(t)] = None]
  /\ mh' = Trailed([mh EXCEPT ![K(t)].wasReset = TRUE], K(t), query_count[K(t)], last_reset_time[K(t)], None)
  /\ pc' = [pc EXCEPT ![t] = "rs192"]
  /\ UNCHANGED <<registry, initialized, query_count, last_reset_time, lock, lockOwner,
                 now, nextId, instVars, store, stack, budget, loc, h>>

\* Variant of line 192 that keeps the counter: what C5 rules out.
rs192Keeps(t) ==
  /\ pc[t] = "rs192"
  /\ pc' = [pc EXCEPT ![t] = "rs193"]
  /\ UNCHANGED <<mgrVars, lockOwner, now, nextId, instVars, store, stack, budget, loc, h, mh>>

\* Line 192.
rs192(t) ==
  /\ pc[t] = "rs192"
  /\ query_count' = [query_count EXCEPT ![K(t)] = 0]
  /\ mh' = Trailed([mh EXCEPT ![K(t)].counted = 0], K(t), 0, last_reset_time[K(t)], vanna_instance[K(t)])
  /\ pc' = [pc EXCEPT ![t] = "rs193"]
  /\ UNCHANGED <<registry, initialized, vanna_instance, last_reset_time, lock, lockOwner,
                 now, nextId, instVars, store, stack, budget, loc, h>>

\* Line 193, and the return to the caller.
rs193(t) ==
  /\ pc[t] = "rs193"
  /\ now < MaxTime
  /\ now' = now + 1
  /\ last_reset_time' = [last_reset_time EXCEPT ![K(t)] = now']
  /\ h' = [h EXCEPT ![t].resets = @ + 1]
  /\ mh' = Trailed(mh, K(t), query_count[K(t)], now + 1, vanna_instance[K(t)])
  /\ pc' = [pc EXCEPT ![t] = Head(stack[t])]
  /\ stack' = [stack EXCEPT ![t] = Tail(@)]
  /\ UNCHANGED <<registry, initialized, vanna_instance, query_count, lock, lockOwner,
                 nextId, instVars, store, budget, loc>>

\* ------------------------------------------------- force_reset
\* Lines 199-200.
CallForceReset(t) ==
  /\ Starts(t)
  /\ Locks(t, K(t), "force_reset")
  /\ mh' = [mh EXCEPT ![K(t)].streak = 0, ![K(t)].streakResets = 0,
                      ![K(t)].idleGets = 0, ![K(t)].idleFirst = None]
  /\ stack' = [stack EXCEPT ![t] = <<"exit">>]
  /\ pc' = [pc EXCEPT ![t] = "rs188"]
  /\ UNCHANGED <<mgrVars, now, nextId, instVars, store>>

\* The call is over: the with block releases the Lock it took, and the
\* result or the exception reaches the caller.
\* Variant that returns without leaving the with block: what C17 rules out.
ExitKeepsLock(t) ==
  /\ pc[t] = "exit"
  /\ loc' = [loc EXCEPT ![t] = [NoLoc EXCEPT !.mref = loc[t].mref, !.held = loc[t].held]]
  /\ h' = [h EXCEPT ![t] = NoH]
  /\ pc' = [pc EXCEPT ![t] = "idle"]
  /\ UNCHANGED <<mgrVars, lockOwner, now, nextId, instVars, store, stack, budget, mh>>

Exit(t) ==
  /\ pc[t] = "exit"
  /\ lockOwner' = IF loc[t].mylock = NoLock THEN lockOwner
                  ELSE [lockOwner EXCEPT ![loc[t].mylock] = NoThread]
  /\ loc' = [loc EXCEPT ![t] = [NoLoc EXCEPT !.mref = loc[t].mref, !.held = loc[t].held]]
  /\ h' = [h EXCEPT ![t] = NoH]
  /\ mh' = IF loc[t].op # "generate_sql_safe" THEN mh
           ELSE IF loc[t].exc \in GenFailures
             THEN [mh EXCEPT ![K(t)].streak = @ + 1,
                             ![K(t)].streakResets = @ + h[t].resets]
             ELSE [mh EXCEPT ![K(t)].streak = 0, ![K(t)].streakResets = 0]
  /\ pc' = [pc EXCEPT ![t] = "idle"]
  /\ UNCHANGED <<mgrVars, now, nextId, instVars, store, stack, budget>>

\* ------------------------------------------------- get_instance
\* Line 55.
CallGetInstance(t) ==
  /\ Starts(t)
  /\ Locks(t, K(t), "get_instance")
  /\ mh' = [mh EXCEPT ![K(t)].streak = 0, ![K(t)].streakResets = 0]
  /\ pc' = [pc EXCEPT ![t] = "gi57"]
  /\ UNCHANGED <<mgrVars, now, nextId, instVars, store, stack>>

\* Variant of the threshold check with > for >=: what C2 rules out.
ThresholdPassed(k) ==
  vanna_instance[k] # None /\ query_count[k] > contamination_threshold

\* Lines 57-60: the threshold check.
ThresholdReached(k) ==
  vanna_instance[k] # None /\ query_count[k] >= contamination_threshold

\* Variant that resets on every call: what C20 rules out.
gi57Always(t) ==
  /\ pc[t] = "gi57"
  /\ pc' = [pc EXCEPT ![t] = "rs188"]
  /\ stack' = [stack EXCEPT ![t] = <<"gi63">> \o @]
  /\ UNCHANGED <<mgrVars, lockOwner, now, nextId, instVars, store, budget, loc, h, mh>>

gi57(t) ==
  /\ pc[t] = "gi57"
  /\ IF ThresholdReached(K(t))
       THEN /\ pc' = [pc EXCEPT ![t] = "rs188"]
            /\ stack' = [stack EXCEPT ![t] = <<"gi63">> \o @]
       ELSE /\ pc' = [pc EXCEPT ![t] = "gi63"]
            /\ UNCHANGED stack
  /\ UNCHANGED <<mgrVars, lockOwner, now, nextId, instVars, store, budget, loc, h, mh>>

\* Variant of line 63 that builds an instance on every call: what C3 rules
\* out.
gi63Always(t) ==
  /\ pc[t] = "gi63"
  /\ pc' = [pc EXCEPT ![t] = "cc79"]
  /\ UNCHANGED <<mgrVars, lockOwner, now, nextId, instVars, store, stack, budget, loc, h, mh>>

\* Line 63.
gi63(t) ==
  /\ pc[t] = "gi63"
  /\ pc' = [pc EXCEPT ![t] = IF vanna_instance[K(t)] = None THEN "cc79" ELSE "gi70"]
  /\ UNCHANGED <<mgrVars, lockOwner, now, nextId, instVars, store, stack, budget, loc, h, mh>>

\* _create_clean_instance, lines 79-98: the instance is constructed and
\* connected (either may raise), then allow_llm_to_see_data = True and
\* disable_auto_training().  Nothing else refers to the instance yet.
cc79(t) ==
  /\ pc[t] = "cc79"
  /\ \E raises \in BOOLEAN :
       IF raises
         THEN /\ loc' = [loc EXCEPT ![t].exc = "CreateError"]
              /\ pc' = [pc EXCEPT ![t] = "exit"]
              /\ UNCHANGED <<nextId, instVars>>
         ELSE /\ nextId <= MaxInst
              /\ nextId' = nextId + 1
              /\ auto_train_enabled' = [auto_train_enabled EXCEPT ![nextId] = FALSE]
              /\ strict_mode' = [strict_mode EXCEPT ![nextId] = TRUE]
              /\ allow_llm_to_see_data' = [allow_llm_to_see_data EXCEPT ![nextId] = TRUE]
              /\ blocked_train_attempts' = [blocked_train_attempts EXCEPT ![nextId] = 0]
              /\ loc' = [loc EXCEPT ![t].this = nextId]
              /\ pc' = [pc EXCEPT ![t] = "cc101"]
  /\ UNCHANGED <<mgrVars, lockOwner, now, store, stack, budget, h, mh>>

\* Variant of the test of line 103 that is always true: what C12 rules out.
StoreIsEmptyAlways == TRUE

\* Lines 101-105: the training phase runs when the store holds no folder;
\* enable_auto_training() (lines 149, 244) on the instance under
\* construction.
StoreIsEmpty == store = {}

\* Variant that hands the instance to the manager before the training phase:
\* what C13 rules out.
cc101StoresFirst(t) ==
  /\ pc[t] = "cc101"
  /\ vanna_instance' = [vanna_instance EXCEPT ![K(t)] = loc[t].this]
  /\ IF StoreIsEmpty
       THEN /\ auto_train_enabled' = [auto_train_enabled EXCEPT ![loc[t].this] = TRUE]
            /\ strict_mode' = [strict_mode EXCEPT ![loc[t].this] = FALSE]
            /\ loc' = [loc EXCEPT ![t].ti = 1]
            /\ pc' = [pc EXCEPT ![t] = "cc107"]
       ELSE /\ pc' = [pc EXCEPT ![t] = "gi64"]
            /\ UNCHANGED <<auto_train_enabled, strict_mode, loc>>
  /\ UNCHANGED <<registry, initialized, query_count, last_reset_time, lock,
                 lockOwner, now, nextId, allow_llm_to_see_data,
                 blocked_train_attempts, store, stack, budget, h, mh>>

cc101(t) ==
  /\ pc[t] = "cc101"
  /\ IF StoreIsEmpty
       THEN /\ auto_train_enabled' = [auto_train_enabled EXCEPT ![loc[t].this] = TRUE]
            /\ strict_mode' = [strict_mode EXCEPT ![loc[t].this] = FALSE]
            /\ loc' = [loc EXCEPT ![t].ti = 1]
            /\ pc' = [pc EXCEPT ![t] = "cc107"]
       ELSE /\ pc' = [pc EXCEPT ![t] = "gi64"]
            /\ UNCHANGED <<auto_train_enabled, strict_mode, loc>>
  /\ UNCHANGED <<mgrVars, lockOwner, now, nextId, allow_llm_to_see_data,
                 blocked_train_attempts, store, stack, budget, h, mh>>

\* ContaminationPreventionVanna.train, line 228, and NIMVanna.train, line
\* 138, on flags nobody else writes meanwhile.
TrainBlocked(i) == strict_mode[i] /\ ~auto_train_enabled[i]
TrainWrites(i) == ~TrainBlocked(i) /\ auto_train_enabled[i]

\* Variant without the finally clause of lines 112-113: what C29 rules out.
cc107NoFinally(t) ==
  /\ pc[t] = "cc107"
  /\ LET i == loc[t].this
         n == loc[t].ti
     IN \E raises \in BOOLEAN :
          IF raises
            THEN /\ loc' = [loc EXCEPT ![t].exc = "TrainError"]
                 /\ pc' = [pc EXCEPT ![t] = "exit"]
                 /\ UNCHANGED <<store, mh, auto_train_enabled, strict_mode>>
            ELSE /\ store' = IF TrainWrites(i) THEN store \cup {Catalog[n]} ELSE store
                 /\ mh' = [mh EXCEPT ![K(t)].loads = IF TrainWrites(i) THEN @ + 1 ELSE @,
                                     ![K(t)].phases = IF n < Len(Catalog) THEN @ ELSE @ + 1]
                 /\ IF n < Len(Catalog)
                      THEN /\ loc' = [loc EXCEPT ![t].ti = n + 1]
                           /\ UNCHANGED <<pc, auto_train_enabled, strict_mode>>
                      ELSE /\ auto_train_enabled' = [auto_train_enabled EXCEPT ![i] = FALSE]
                           /\ strict_mode' = [strict_mode EXCEPT ![i] = TRUE]
                           /\ loc' = [loc EXCEPT ![t].ti = 0]
                           /\ pc' = [pc EXCEPT ![t] = "gi64"]
  /\ UNCHANGED <<mgrVars, lockOwner, now, nextId, allow_llm_to_see_data,
                 blocked_train_attempts, stack, budget, h>>

\* initVanna, one catalog entry per step (lines 243-481): run_sql, the
\* embedding call or the write may raise; lines 112-113 then restore strict
\* mode and the exception leaves get_instance.  After the last entry, lines
\* 484 and 113: disable_auto_training().
cc107(t) ==
  /\ pc[t] = "cc107"
  /\ LET i == loc[t].this
         n == loc[t].ti
     IN \E raises \in BOOLEAN :
          IF raises
            THEN /\ auto_train_enabled' = [auto_train_enabled EXCEPT ![i] = FALSE]
                 /\ strict_mode' = [strict_mode EXCEPT ![i] = TRUE]
                 /\ loc' = [loc EXCEPT ![t].exc = "TrainError"]
                 /\ pc' = [pc EXCEPT ![t] = "exit"]
                 /\ UNCHANGED <<store, mh>>
            ELSE /\ store' = IF TrainWrites(i) THEN store \cup {Catalog[n]} ELSE store
                 /\ mh' = [mh EXCEPT ![K(t)].loads = IF TrainWrites(i) THEN @ + 1 ELSE @,
                                     ![K(t)].phases = IF n < Len(Catalog) THEN @ ELSE @ + 1]
                 /\ IF n < Len(Catalog)
                      THEN /\ loc' = [loc EXCEPT ![t].ti = n + 1]
                           /\ UNCHANGED <<pc, auto_train_enabled, strict_mode>>
                      ELSE /\ auto_train_enabled' = [auto_train_enabled EXCEPT ![i] = FALSE]
                           /\ strict_mode' = [strict_mode EXCEPT ![i] = TRUE]
                           /\ loc' = [loc EXCEPT ![t].ti = 0]
                           /\ pc' = [pc EXCEPT ![t] = "gi64"]
  /\ UNCHANGED <<mgrVars, lockOwner, now, nextId, allow_llm_to_see_data,
                 blocked_train_attempts, stack, budget, h>>

\* Lines 116 and 64: the instance built becomes the manager's.
gi64(t) ==
  /\ pc[t] = "gi64"
  /\ vanna_instance' = [vanna_instance EXCEPT ![K(t)] = loc[t].this]
  /\ h' = [h EXCEPT ![t].created = loc[t].this]
  /\ mh' = Trailed([mh EXCEPT ![K(t)].installs = @ + 1], K(t), query_count[K(t)], last_reset_time[K(t)], loc[t].this)
  /\ pc' = [pc EXCEPT ![t] = "gi67"]
  /\ UNCHANGED <<registry, initialized, query_count, last_reset_time, lock, lockOwner,
                 now, nextId, instVars, store, stack, budget, loc>>

\* Line 67.
gi67(t) ==
  /\ pc[t] = "gi67"
  /\ query_count' = [query_count EXCEPT ![K(t)] = 0]
  /\ mh' = Trailed([mh EXCEPT ![K(t)].counted = 0], K(t), 0, last_reset_time[K(t)], vanna_instance[K(t)])
  /\ pc' = [pc EXCEPT ![t] = "gi68"]
  /\ UNCHANGED <<registry, initialized, vanna_instance, last_reset_time, lock, lockOwner,
                 now, nextId, instVars, store, stack, budget, loc, h>>

\* Line 68.
gi68(t) ==
  /\ pc[t] = "gi68"
  /\ now < MaxTime
  /\ now' = now + 1
  /\ last_reset_time' = [last_reset_time EXCEPT ![K(t)] = now']
  /\ mh' = Trailed(mh, K(t), query_count[K(t)], now + 1, vanna_instance[K(t)])
  /\ pc' = [pc EXCEPT ![t] = "gi70"]
  /\ UNCHANGED <<registry, initialized, vanna_instance, query_count, lock, lockOwner,
                 nextId, instVars, store, stack, budget, loc, h>>

\* Line 70: return self.vanna_instance.
gi70(t) ==
  /\ pc[t] = "gi70"
  /\ loc' = [loc EXCEPT ![t].held = vanna_instance[K(t)], ![t].this = None]
  /\ mh' = [mh EXCEPT ![K(t)].idleGets = Min(@ + 1, contamination_threshold + 1),
                      ![K(t)].idleFirst = IF mh[K(t)].idleGets = 0
                                            THEN vanna_instance[K(t)] ELSE @]
  /\ pc' = [pc EXCEPT ![t] = "exit"]
  /\ UNCHANGED <<mgrVars, lockOwner, now, nextId, instVars, store, stack, budget, h>>

\* ------------------------------------------- disable_auto_training
\* NIMVanna.disable_auto_training, line 154.
da154(t) ==
  /\ pc[t] = "da154"
  /\ auto_train_enabled' = [auto_train_enabled EXCEPT ![loc[t].this] = FALSE]
  /\ pc' = [pc EXCEPT ![t] = "da250"]
  /\ UNCHANGED <<mgrVars, lockOwner, now, nextId, strict_mode, allow_llm_to_see_data,
                 blocked_train_attempts, store, stack, budget, loc, h, mh>>

\* ContaminationPreventionVanna.disable_auto_training, line 250, and the
\* return to the caller.
da250(t) ==
  /\ pc[t] = "da250"
  /\ strict_mode' = [strict_mode EXCEPT ![loc[t].this] = TRUE]
  /\ pc' = [pc EXCEPT ![t] = Head(stack[t])]
  /\ stack' = [stack EXCEPT ![t] = Tail(@)]
  /\ UNCHANGED <<mgrVars, lockOwner, now, nextId, auto_train_enabled, allow_llm_to_see_data,
                 blocked_train_attempts, store, budget, loc, h, mh>>

\* ------------------------------------------------- generate_sql
\* ContaminationPreventionVanna.generate_sql, line 258.
g258(t) ==
  /\ pc[t] = "g258"
  /\ allow_llm_to_see_data' = [allow_llm_to_see_data EXCEPT ![loc[t].this] = TRUE]
  /\ pc' = [pc EXCEPT ![t] = "g259"]
  /\ UNCHANGED <<mgrVars, lockOwner, now, nextId, auto_train_enabled, strict_mode,
                 blocked_train_attempts, store, stack, budget, loc, h, mh>>

\* Line 259.
g259(t) ==
  /\ pc[t] = "g259"
  /\ strict_mode' = [strict_mode EXCEPT ![loc[t].this] = TRUE]
  /\ pc' = [pc EXCEPT ![t] = "g167"]
  /\ UNCHANGED <<mgrVars, lockOwner, now, nextId, auto_train_enabled, allow_llm_to_see_data,
                 blocked_train_attempts, store, stack, budget, loc, h, mh>>

\* NIMVanna.generate_sql, lines 163-169.
g167(t) ==
  /\ pc[t] = "g167"
  /\ allow_llm_to_see_data' = [allow_llm_to_see_data EXCEPT ![loc[t].this] = TRUE]
  /\ pc' = [pc EXCEPT ![t] = "g175"]
  /\ UNCHANGED <<mgrVars, lockOwner, now, nextId, auto_train_enabled, strict_mode,
                 blocked_train_attempts, store, stack, budget, loc, h, mh>>

\* Variant without the test of lines 175-177: what C18 rules out.
g175NoDisable(t) ==
  /\ pc[t] = "g175"
  /\ pc' = [pc EXCEPT ![t] = "g183"]
  /\ UNCHANGED <<mgrVars, lockOwner, now, nextId, instVars, store, stack, budget, loc, h, mh>>

\* Lines 175-177.
g175(t) ==
  /\ pc[t] = "g175"
  /\ IF auto_train_enabled[loc[t].this]
       THEN /\ pc' = [pc EXCEPT ![t] = "da154"]
            /\ stack' = [stack EXCEPT ![t] = <<"g183">> \o @]
       ELSE /\ pc' = [pc EXCEPT ![t] = "g183"]
            /\ UNCHANGED stack
  /\ UNCHANGED <<mgrVars, lockOwner, now, nextId, instVars, store, budget, loc, h, mh>>

\* Line 183: the underlying generator runs; it returns text or raises.
g183(t) ==
  /\ pc[t] = "g183"
  /\ \E r \in Outputs \cup {"raise"} :
       /\ h' = [h EXCEPT ![t].gens = @ + 1, ![t].raw = r]
       /\ IF r = "raise"
            THEN /\ loc' = [loc EXCEPT ![t].exc = "GenError"]
                 /\ pc' = [pc EXCEPT ![t] = "g278"]
            ELSE /\ loc' = [loc EXCEPT ![t].out = r]
                 /\ pc' = [pc EXCEPT ![t] = "g269"]
  /\ UNCHANGED <<mgrVars, lockOwner, now, nextId, instVars, store, stack, budget, mh>>

\* Variant that raises on a suspicious result as well: what C22 rules out.
g269Rejects(t) ==
  /\ pc[t] = "g269"
  /\ IF IsBlank(Text(loc[t].out)) \/ is_suspicious(Text(loc[t].out))
       THEN /\ loc' = [loc EXCEPT ![t].exc = "Empty", ![t].out = ""]
            /\ pc' = [pc EXCEPT ![t] = "g278"]
            /\ UNCHANGED stack
       ELSE /\ pc' = [pc EXCEPT ![t] = Head(stack[t])]
            /\ stack' = [stack EXCEPT ![t] = Tail(@)]
            /\ UNCHANGED loc
  /\ UNCHANGED <<mgrVars, lockOwner, now, nextId, instVars, store, budget, h, mh>>

\* ContaminationPreventionVanna.generate_sql, lines 269-276: blank output
\* raises; anything else is returned (line 273 only logs).
g269(t) ==
  /\ pc[t] = "g269"
  /\ IF IsBlank(Text(loc[t].out))
       THEN /\ loc' = [loc EXCEPT ![t].exc = "Empty", ![t].out = ""]
            /\ pc' = [pc EXCEPT ![t] = "g278"]
            /\ UNCHANGED stack
       ELSE /\ pc' = [pc EXCEPT ![t] = Head(stack[t])]
            /\ stack' = [stack EXCEPT ![t] = Tail(@)]
            /\ UNCHANGED loc
  /\ UNCHANGED <<mgrVars, lockOwner, now, nextId, instVars, store, budget, h, mh>>

\* Lines 278-280: log and re-raise to the caller.
g278(t) ==
  /\ pc[t] = "g278"
  /\ pc' = [pc EXCEPT ![t] = HandlerOf(Head(stack[t]))]
  /\ stack' = [stack EXCEPT ![t] = Tail(@)]
  /\ UNCHANGED <<mgrVars, lockOwner, now, nextId, instVars, store, budget, loc, h, mh>>

\* ------------------------------------------------- generate_sql_safe
\* Line 122.
CallGenerateSqlSafe(t) ==
  /\ Starts(t)
  /\ K(t) # NoKey
  /\ query_count[K(t)] < MaxCount
  /\ Locks(t, K(t), "generate_sql_safe")
  /\ mh' = [mh EXCEPT ![K(t)].idleGets = 0, ![K(t)].idleFirst = None]
  /\ pc' = [pc EXCEPT ![t] = "gs123"]
  /\ UNCHANGED <<mgrVars, now, nextId, instVars, store, stack>>

\* Variant of generate_sql_safe without the check of lines 123-124: what C8
\* rules out.
gs123NoCheck(t) ==
  /\ pc[t] = "gs123"
  /\ pc' = [pc EXCEPT ![t] = "gs127"]
  /\ mh' = [mh EXCEPT ![K(t)].counted = @ + 1]
  /\ UNCHANGED <<mgrVars, lockOwner, now, nextId, instVars, store, stack, budget, loc, h>>

\* Lines 123-124: raised before the try block, nothing catches it.
gs123(t) ==
  /\ pc[t] = "gs123"
  /\ IF vanna_instance[K(t)] = None
       THEN /\ loc' = [loc EXCEPT ![t].exc = "NoInstance"]
            /\ pc' = [pc EXCEPT ![t] = "exit"]
            /\ UNCHANGED mh
       ELSE /\ pc' = [pc EXCEPT ![t] = "gs127"]
            /\ mh' = [mh EXCEPT ![K(t)].counted = @ + 1]
            /\ UNCHANGED loc
  /\ UNCHANGED <<mgrVars, lockOwner, now, nextId, instVars, store, stack, budget, h>>

\* Line 127, the read of self.query_count.
gs127(t) ==
  /\ pc[t] = "gs127"
  /\ loc' = [loc EXCEPT ![t].tmp = query_count[K(t)]]
  /\ pc' = [pc EXCEPT ![t] = "gs127w"]
  /\ UNCHANGED <<mgrVars, lockOwner, now, nextId, instVars, store, stack, budget, h, mh>>

\* Line 127, the write.
gs127w(t) ==
  /\ pc[t] = "gs127w"
  /\ query_count' = [query_count EXCEPT ![K(t)] = loc[t].tmp + 1]
  /\ loc' = [loc EXCEPT ![t].tmp = 0]
  /\ mh' = Trailed(mh, K(t), loc[t].tmp + 1, last_reset_time[K(t)], vanna_instance[K(t)])
  /\ pc' = [pc EXCEPT ![t] = "gs130"]
  /\ UNCHANGED <<registry, initialized, vanna_instance, last_reset_time, lock, lockOwner,
                 now, nextId, instVars, store, stack, budget, h>>

\* Line 130.  self.vanna_instance is read again: on None the assignment
\* raises AttributeError, outside the try block.
gs130(t) ==
  /\ pc[t] = "gs130"
  /\ LET i == vanna_instance[K(t)]
     IN IF i = None
          THEN /\ loc' = [loc EXCEPT ![t].exc = "AttributeError"]
               /\ pc' = [pc EXCEPT ![t] = "exit"]
               /\ UNCHANGED allow_llm_to_see_data
          ELSE /\ allow_llm_to_see_data' = [allow_llm_to_see_data EXCEPT ![i] = TRUE]
               /\ pc' = [pc EXCEPT ![t] = "gs131"]
               /\ UNCHANGED loc
  /\ UNCHANGED <<mgrVars, lockOwner, now, nextId, auto_train_enabled, strict_mode,
                 blocked_train_attempts, store, stack, budget, h, mh>>

\* Line 131: self.vanna_instance.disable_auto_training().
gs131(t) ==
  /\ pc[t] = "gs131"
  /\ LET i == vanna_instance[K(t)]
     IN IF i = None
          THEN /\ loc' = [loc EXCEPT ![t].exc = "AttributeError"]
               /\ pc' = [pc EXCEPT ![t] = "exit"]
               /\ UNCHANGED stack
          ELSE /\ loc' = [loc EXCEPT ![t].this = i]
               /\ pc' = [pc EXCEPT ![t] = "da154"]
               /\ stack' = [stack EXCEPT ![t] = <<"gs135">> \o @]
  /\ UNCHANGED <<mgrVars, lockOwner, now, nextId, instVars, store, budget, h, mh>>

\* Line 135, inside the try block: self.vanna_instance.generate_sql(...).
gs135(t) ==
  /\ pc[t] = "gs135"
  /\ LET i == vanna_instance[K(t)]
     IN IF i = None
          THEN /\ loc' = [loc EXCEPT ![t].exc = "AttributeError"]
               /\ pc' = [pc EXCEPT ![t] = "gs149"]
               /\ UNCHANGED stack
          ELSE /\ loc' = [loc EXCEPT ![t].this = i]
               /\ pc' = [pc EXCEPT ![t] = "g258"]
               /\ stack' = [stack EXCEPT ![t] = <<"gs138">> \o @]
  /\ UNCHANGED <<mgrVars, lockOwner, now, nextId, instVars, store, budget, h, mh>>

\* Lines 138-139.
gs138(t) ==
  /\ pc[t] = "gs138"
  /\ IF IsBlank(Text(loc[t].out))
       THEN /\ loc' = [loc EXCEPT ![t].exc = "Empty", ![t].out = ""]
            /\ pc' = [pc EXCEPT ![t] = "gs149"]
       ELSE /\ pc' = [pc EXCEPT ![t] = "gs142"]
            /\ UNCHANGED loc
  /\ UNCHANGED <<mgrVars, lockOwner, now, nextId, instVars, store, stack, budget, h, mh>>

\* Variant of lines 142-145 that raises without the reset of line 144: what
\* C6 rules out.
gs142NoReset(t) ==
  /\ pc[t] = "gs142"
  /\ pc' = [pc EXCEPT ![t] = IF is_contaminated_response(Text(loc[t].out))
                               THEN "gs145" ELSE "exit"]
  /\ UNCHANGED <<mgrVars, lockOwner, now, nextId, instVars, store, stack, budget, loc, h, mh>>

\* Lines 142-147: a contaminated response resets the instance, then raises
\* (line 145, reached when _reset_instance returns); a clean one is returned.
\* Variant that scans with the wrapper's list of line 272: what C23 rules out.
gs142Suspicious(t) ==
  /\ pc[t] = "gs142"
  /\ IF is_suspicious(Text(loc[t].out))
       THEN /\ pc' = [pc EXCEPT ![t] = "rs188"]
            /\ stack' = [stack EXCEPT ![t] = <<"gs145">> \o @]
       ELSE /\ pc' = [pc EXCEPT ![t] = "exit"]
            /\ UNCHANGED stack
  /\ UNCHANGED <<mgrVars, lockOwner, now, nextId, instVars, store, budget, loc, h, mh>>

gs142(t) ==
  /\ pc[t] = "gs142"
  /\ IF is_contaminated_response(Text(loc[t].out))
       THEN /\ pc' = [pc EXCEPT ![t] = "rs188"]
            /\ stack' = [stack EXCEPT ![t] = <<"gs145">> \o @]
       ELSE /\ pc' = [pc EXCEPT ![t] = "exit"]
            /\ UNCHANGED stack
  /\ UNCHANGED <<mgrVars, lockOwner, now, nextId, instVars, store, budget, loc, h, mh>>

\* Line 145, inside the try block.
gs145(t) ==
  /\ pc[t] = "gs145"
  /\ loc' = [loc EXCEPT ![t].exc = "Contaminated", ![t].out = ""]
  /\ pc' = [pc EXCEPT ![t] = "gs149"]
  /\ UNCHANGED <<mgrVars, lockOwner, now, nextId, instVars, store, stack, budget, h, mh>>

\* Variant of the handler's condition that resets on every error: what C9
\* rules out.
GuardFiresAlways(k) == query_count[k] >= 0

\* Lines 149-155: the handler resets when query_count is a multiple of 10,
\* then re-raises.
GuardFires(k) == query_count[k] % GuardPeriod = 0

gs149(t) ==
  /\ pc[t] = "gs149"
  /\ IF GuardFires(K(t))
       THEN /\ pc' = [pc EXCEPT ![t] = "rs188"]
            /\ stack' = [stack EXCEPT ![t] = <<"exit">> \o @]
       ELSE /\ pc' = [pc EXCEPT ![t] = "exit"]
            /\ UNCHANGED stack
  /\ UNCHANGED <<mgrVars, lockOwner, now, nextId, instVars, store, budget, loc, h, mh>>

\* ------------------------------------------------- calls on the instance
\* get_instance hands the instance itself to its caller, who may call its
\* methods without the manager: these calls take no lock.
OnInstance(t, name) ==
  /\ Starts(t)
  /\ loc[t].held # None
  /\ loc' = [loc EXCEPT ![t].this = loc[t].held, ![t].op = name]
  /\ h' = [h EXCEPT ![t] = [NoH EXCEPT !.inst = loc[t].held,
                                       !.flag = auto_train_enabled[loc[t].held],
                                       !.strict = strict_mode[loc[t].held],
                                       !.blocked = blocked_train_attempts[loc[t].held]]]

\* Variant of train without the checks of lines 228, 235 and 138, the train
\* of the vector store itself: what C10 rules out.
CallTrainUnguarded(t) ==
  /\ OnInstance(t, "train")
  /\ pc' = [pc EXCEPT ![t] = "tr145"]
  /\ UNCHANGED <<mgrVars, lockOwner, now, nextId, instVars, store, stack, mh>>

\* instance.train(question=..., sql=...), line 224.
CallTrain(t) ==
  /\ OnInstance(t, "train")
  /\ pc' = [pc EXCEPT ![t] = "tr228"]
  /\ UNCHANGED <<mgrVars, lockOwner, now, nextId, instVars, store, stack, mh>>

\* Line 228, the read of self._strict_mode: when it is False the condition
\* is False without a look at _auto_train_enabled.
tr228(t) ==
  /\ pc[t] = "tr228"
  /\ pc' = [pc EXCEPT ![t] = IF strict_mode[loc[t].this] THEN "tr228b" ELSE "tr235"]
  /\ UNCHANGED <<mgrVars, lockOwner, now, nextId, instVars, store, stack, budget, loc, h, mh>>

\* Line 228, the read of self._auto_train_enabled.
tr228b(t) ==
  /\ pc[t] = "tr228b"
  /\ pc' = [pc EXCEPT ![t] = IF auto_train_enabled[loc[t].this] THEN "tr235" ELSE "tr229"]
  /\ UNCHANGED <<mgrVars, lockOwner, now, nextId, instVars, store, stack, budget, loc, h, mh>>

\* Line 229, the read of self._blocked_train_attempts.
tr229(t) ==
  /\ pc[t] = "tr229"
  /\ loc' = [loc EXCEPT ![t].tmp = blocked_train_attempts[loc[t].this]]
  /\ pc' = [pc EXCEPT ![t] = "tr229w"]
  /\ UNCHANGED <<mgrVars, lockOwner, now, nextId, instVars, store, stack, budget, h, mh>>

\* Line 229, the write, and the return of line 232.
tr229w(t) ==
  /\ pc[t] = "tr229w"
  /\ blocked_train_attempts' = [blocked_train_attempts EXCEPT ![loc[t].this] = loc[t].tmp + 1]
  /\ loc' = [loc EXCEPT ![t].tmp = 0]
  /\ h' = [h EXCEPT ![t].ret = 232]
  /\ pc' = [pc EXCEPT ![t] = "exit"]
  /\ UNCHANGED <<mgrVars, lockOwner, now, nextId, auto_train_enabled, strict_mode,
                 allow_llm_to_see_data, store, stack, budget, mh>>

\* Lines 235-239: super().train when _auto_train_enabled is set, else the
\* warning of line 239 and the return.
tr235(t) ==
  /\ pc[t] = "tr235"
  /\ IF auto_train_enabled[loc[t].this]
       THEN /\ pc' = [pc EXCEPT ![t] = "tr138"]
            /\ UNCHANGED h
       ELSE /\ pc' = [pc EXCEPT ![t] = "exit"]
            /\ h' = [h EXCEPT ![t].ret = 239]
  /\ UNCHANGED <<mgrVars, lockOwner, now, nextId, instVars, store, stack, budget, loc, mh>>

\* NIMVanna.train, lines 138-141.
tr138(t) ==
  /\ pc[t] = "tr138"
  /\ IF auto_train_enabled[loc[t].this]
       THEN /\ pc' = [pc EXCEPT ![t] = "tr145"]
            /\ UNCHANGED h
       ELSE /\ pc' = [pc EXCEPT ![t] = "exit"]
            /\ h' = [h EXCEPT ![t].ret = 141]
  /\ UNCHANGED <<mgrVars, lockOwner, now, nextId, instVars, store, stack, budget, loc, mh>>

\* NIMVanna.train, line 145: the vector store's train embeds the example and
\* adds it to the index, or raises.
tr145(t) ==
  /\ pc[t] = "tr145"
  /\ \E raises \in BOOLEAN :
       IF raises
         THEN /\ loc' = [loc EXCEPT ![t].exc = "TrainError"]
              /\ h' = [h EXCEPT ![t].ret = 145]
              /\ UNCHANGED store
         ELSE /\ \E e \in LiveExamples : store' = store \cup {e}
              /\ h' = [h EXCEPT ![t].ret = 145, ![t].wrote = TRUE]
              /\ UNCHANGED loc
  /\ pc' = [pc EXCEPT ![t] = "exit"]
  /\ UNCHANGED <<mgrVars, lockOwner, now, nextId, instVars, stack, budget, mh>>

\* instance.enable_auto_training(), line 241.
CallEnable(t) ==
  /\ OnInstance(t, "enable_auto_training")
  /\ pc' = [pc EXCEPT ![t] = "en149"]
  /\ UNCHANGED <<mgrVars, lockOwner, now, nextId, instVars, store, stack, mh>>

\* NIMVanna.enable_auto_training, line 149.  The train calls in progress on
\* the instance are marked: the flag has been True during them.
en149(t) ==
  /\ pc[t] = "en149"
  /\ auto_train_enabled' = [auto_train_enabled EXCEPT ![loc[t].this] = TRUE]
  /\ h' = [u \in Threads |->
             IF pc[u] # "idle" /\ loc[u].op = "train" /\ loc[u].this = loc[t].this
               THEN [h[u] EXCEPT !.flag = TRUE] ELSE h[u]]
  /\ pc' = [pc EXCEPT ![t] = "en244"]
  /\ UNCHANGED <<mgrVars, lockOwner, now, nextId, strict_mode, allow_llm_to_see_data,
                 blocked_train_attempts, store, stack, budget, loc, mh>>

\* Variant of enable_auto_training without line 244: what C14 rules out.
en244Keeps(t) ==
  /\ pc[t] = "en244"
  /\ pc' = [pc EXCEPT ![t] = "exit"]
  /\ UNCHANGED <<mgrVars, lockOwner, now, nextId, instVars, store, stack, budget, loc, h, mh>>

\* ContaminationPreventionVanna.enable_auto_training, line 244.
en244(t) ==
  /\ pc[t] = "en244"
  /\ strict_mode' = [strict_mode EXCEPT ![loc[t].this] = FALSE]
  /\ pc' = [pc EXCEPT ![t] = "exit"]
  /\ UNCHANGED <<mgrVars, lockOwner, now, nextId, auto_train_enabled, allow_llm_to_see_data,
                 blocked_train_attempts, store, stack, budget, loc, h, mh>>

\* instance.disable_auto_training(), line 247.
CallDisable(t) ==
  /\ OnInstance(t, "disable_auto_training")
  /\ stack' = [stack EXCEPT ![t] = <<"exit">>]
  /\ pc' = [pc EXCEPT ![t] = "da154"]
  /\ UNCHANGED <<mgrVars, lockOwner, now, nextId, instVars, store, mh>>

\* instance.generate_sql(question), line 253.
CallGenerateSql(t) ==
  /\ OnInstance(t, "generate_sql")
  /\ stack' = [stack EXCEPT ![t] = <<"exit">>]
  /\ pc' = [pc EXCEPT ![t] = "g258"]
  /\ UNCHANGED <<mgrVars, lockOwner, now, nextId, instVars, store, mh>>

\* ------------------------------------------------- submit_prompt
\* NIMCustomLLM.submit_prompt, lines 62-107 of vanna_util.py: the clean-up
\* of the LLM's response, on strings as sequences of characters.
UpperToLower ==
  ("A" :> "a") @@ ("B" :> "b") @@ ("C" :> "c") @@ ("D" :> "d") @@ ("E" :> "e") @@
  ("F" :> "f") @@ ("G" :> "g") @@ ("H" :> "h") @@ ("I" :> "i") @@ ("J" :> "j") @@
  ("K" :> "k") @@ ("L" :> "l") @@ ("M" :> "m") @@ ("N" :> "n") @@ ("O" :> "o") @@
  ("P" :> "p") @@ ("Q" :> "q") @@ ("R" :> "r") @@ ("S" :> "s") @@ ("T" :> "t") @@
  ("U" :> "u") @@ ("V" :> "v") @@ ("W" :> "w") @@ ("X" :> "x") @@ ("Y" :> "y") @@
  ("Z" :> "z")

Lower(c) == IF c \in DOMAIN UpperToLower THEN UpperToLower[c] ELSE c

\* re.match(p, s[i-1:], re.IGNORECASE) for a literal p.
IsPrefixAtI(p, s, i) == /\ i + Len(p) - 1 <= Len(s)
                        /\ \A j \in 1..Len(p) : Lower(s[i + j - 1]) = Lower(p[j])

\* str.strip()
Strip(s) ==
  IF IsBlank(s) THEN << >>
  ELSE LET a == CHOOSE i \in 1..Len(s) :
                  s[i] \notin Whitespace /\ \A j \in 1..(i - 1) : s[j] \in Whitespace
           b == CHOOSE i \in 1..Len(s) :
                  s[i] \notin Whitespace /\ \A j \in (i + 1)..Len(s) : s[j] \in Whitespace
       IN SubSeq(s, a, b)

\* str.lstrip(), what a trailing \s* of a pattern consumes.
LStrip(s) ==
  IF IsBlank(s) THEN << >>
  ELSE LET a == CHOOSE i \in 1..Len(s) :
                  s[i] \notin Whitespace /\ \A j \in 1..(i - 1) : s[j] \in Whitespace
       IN SubSeq(s, a, Len(s))

\* The grave accent, which a string of the module cannot hold.
Grave == "grave"

FenceSql == <<Grave,Grave,Grave,"s","q","l">>
Fence == <<Grave,Grave,Grave>>

\* re.sub(p + r'\n?', '', s), lines 69-70: every occurrence of p, with the
\* newline that follows it if there is one, is removed, left to right.
RECURSIVE RemoveAll(_, _)
RemoveAll(s, p) ==
  IF s = << >> THEN << >>
  ELSE IF IsPrefixAt(p, s, 1)
    THEN LET r == SubSeq(s, Len(p) + 1, Len(s))
         IN RemoveAll(IF r # << >> /\ Head(r) = "\n" THEN Tail(r) ELSE r, p)
    ELSE <<Head(s)>> \o RemoveAll(Tail(s), p)

\* Variant without lines 69-70: the fence markers stay.
KeepFences(s) == s

RemoveFences(s) == RemoveAll(RemoveAll(s, FenceSql), Fence)

\* Line 73: the alternatives in the order the pattern tries them.
Prefixes73 == << <<"H","e","r","e"," ","i","s"," ","t","h","e"," ","S","Q","L"," ","q","u","e","r","y">>,
                <<"T","h","e"," ","S","Q","L"," ","q","u","e","r","y"," ","i","s">>,
                <<"S","Q","L"," ","q","u","e","r","y",":">> >>

\* Line 74.
Prefixes74 == << <<"I","t"," ","s","e","e","m","s"," ","l","i","k","e">>,
                <<"B","a","s","e","d"," ","o","n">>,
                <<"T","h","e"," ","q","u","e","r","y">> >>

\* The first alternative that matches at the start of s, 0 if none does.
FirstMatch(ps, s) ==
  IF \E n \in 1..Len(ps) : IsPrefixAtI(ps[n], s, 1)
    THEN CHOOSE n \in 1..Len(ps) :
           IsPrefixAtI(ps[n], s, 1) /\ \A m \in 1..(n - 1) : ~IsPrefixAtI(ps[m], s, 1)
    ELSE 0

StripPrefix73(s) ==
  LET n == FirstMatch(Prefixes73, s)
  IN IF n = 0 THEN s ELSE LStrip(SubSeq(s, Len(Prefixes73[n]) + 1, Len(s)))

StripPrefix74(s) ==
  LET n == FirstMatch(Prefixes74, s)
  IN IF n = 0 THEN s ELSE SubSeq(s, Len(Prefixes74[n]) + 1, Len(s))

\* str.split('\n') and '\n'.join(...)
RECURSIVE Split(_)
Split(s) ==
  IF \A j \in 1..Len(s) : s[j] # "\n" THEN <<s>>
  ELSE LET i == CHOOSE i \in 1..Len(s) : s[i] = "\n" /\ \A j \in 1..(i - 1) : s[j] # "\n"
       IN <<SubSeq(s, 1, i - 1)>> \o Split(SubSeq(s, i + 1, Len(s)))

RECURSIVE Join(_)
Join(ls) ==
  IF ls = << >> THEN << >>
  ELSE IF Len(ls) = 1 THEN Head(ls)
  ELSE Head(ls) \o <<"\n">> \o Join(Tail(ls))

\* Line 87: a statement keyword followed by white space.
SqlKeywords == { <<"S","E","L","E","C","T">>,
                 <<"I","N","S","E","R","T">>,
                 <<"U","P","D","A","T","E">>,
                 <<"D","E","L","E","T","E">>,
                 <<"W","I","T","H">>,
                 <<"C","R","E","A","T","E">>,
                 <<"A","L","T","E","R">>,
                 <<"D","R","O","P">> }

LooksLikeSql(line) ==
  \E kw \in SqlKeywords :
    /\ IsPrefixAtI(kw, line, 1)
    /\ Len(line) > Len(kw)
    /\ line[Len(kw) + 1] \in Whitespace

\* Line 90: the words that end the statement.
ProseWords == { <<"H","e","r","e">>, <<"T","h","e">>, <<"T","h","i","s">>, <<"B","a","s","e","d">>, <<"I","t">>, <<"Q","u","e","r","y">> }

LooksLikeProse(line) == \E w \in ProseWords : IsPrefixAtI(w, line, 1)

\* The loop of lines 81-95 over the lines still to read.
RECURSIVE SqlLines(_, _)
SqlLines(lines, found_sql) ==
  IF lines = << >> THEN << >>
  ELSE LET line == Strip(Head(lines))
       IN IF line = << >> THEN SqlLines(Tail(lines), found_sql)
          ELSE IF LooksLikeSql(line) THEN <<line>> \o SqlLines(Tail(lines), TRUE)
          ELSE IF found_sql /\ ~LooksLikeProse(line)
            THEN <<line>> \o SqlLines(Tail(lines), found_sql)
          ELSE IF found_sql THEN << >>
          ELSE SqlLines(Tail(lines), found_sql)

\* Lines 63-101.
CleanResponse(content) ==
  LET stripped == Strip(content)
      unfenced == RemoveFences(stripped)
      unprefixed == StripPrefix74(StripPrefix73(unfenced))
      sql_lines == SqlLines(Split(unprefixed), FALSE)
  IN Strip(IF sql_lines # << >> THEN Join(sql_lines) ELSE unprefixed)

\* The lines the LLM's responses are made of: an introduction, the fence
\* markers, a statement of two lines, prose the loop knows and prose it
\* does not.
LineHere == <<"H","e","r","e"," ","i","s"," ","t","h","e"," ","S","Q","L"," ","q","u","e","r","y",":">>
LineSelect == <<"S","E","L","E","C","T"," ","1">>
LineFrom == <<"F","R","O","M"," ","t">>
LineThis == <<"T","h","i","s"," ","r","e","t","u","r","n","s"," ","o","n","e"," ","r","o","w",".">>
LineNote == <<"N","o","t","e",":"," ","o","n","e"," ","r","o","w",".">>
ResponseLines == {LineHere, FenceSql, Fence, LineSelect, LineFrom, LineThis, LineNote}

Responses ==
  {Join(ls) : ls \in UNION {[1..n -> ResponseLines] : n \in 1..MaxLines}}

\* Lines 46-60: the prompt is sent and the client returns a response.
CallSubmitPrompt(t) ==
  /\ Starts(t)
  /\ \E r \in Responses :
       h' = [h EXCEPT ![t] = [NoH EXCEPT !.raw = r]]
  /\ loc' = [loc EXCEPT ![t].op = "submit_prompt"]
  /\ pc' = [pc EXCEPT ![t] = "sp63"]
  /\ UNCHANGED <<mgrVars, lockOwner, now, nextId, instVars, store, stack, mh>>

\* Lines 63-107: the response is cleaned and returned.
sp63(t) ==
  /\ pc[t] = "sp63"
  /\ loc' = [loc EXCEPT ![t].out = CleanResponse(h[t].raw)]
  /\ pc' = [pc EXCEPT ![t] = "exit"]
  /\ UNCHANGED <<mgrVars, lockOwner, now, nextId, instVars, store, stack, budget, h, mh>>

\* ------------------------------------------------- get_stats
\* VannaManager.get_stats, lines 202-212: the dictionary is built from one
\* attribute read after the other, outside the lock.
\* What id() gives for the None object: the identity of no instance.
IdOfNone == MaxInst + 1

CallGetStats(t) ==
  /\ Starts(t)
  /\ K(t) # NoKey
  /\ loc' = [loc EXCEPT ![t].op = "get_stats"]
  /\ h' = [h EXCEPT ![t] = [NoH EXCEPT !.from = Len(mh[K(t)].trail)]]
  /\ pc' = [pc EXCEPT ![t] = "st208"]
  /\ UNCHANGED <<mgrVars, lockOwner, now, nextId, instVars, store, stack, mh>>

\* Line 208: self.query_count.
st208(t) ==
  /\ pc[t] = "st208"
  /\ h' = [h EXCEPT ![t].qc = query_count[K(t)]]
  /\ pc' = [pc EXCEPT ![t] = "st209"]
  /\ UNCHANGED <<mgrVars, lockOwner, now, nextId, instVars, store, stack, budget, loc, mh>>

\* Line 209: self.last_reset_time.
st209(t) ==
  /\ pc[t] = "st209"
  /\ h' = [h EXCEPT ![t].time = last_reset_time[K(t)]]
  /\ pc' = [pc EXCEPT ![t] = "st210"]
  /\ UNCHANGED <<mgrVars, lockOwner, now, nextId, instVars, store, stack, budget, loc, mh>>

\* Line 210, the condition: self.vanna_instance is read and tested; None
\* is reported when it is None.
st210(t) ==
  /\ pc[t] = "st210"
  /\ IF vanna_instance[K(t)] = None
       THEN /\ loc' = [loc EXCEPT ![t].out = <<h[t].qc, h[t].time, None>>]
            /\ pc' = [pc EXCEPT ![t] = "exit"]
       ELSE /\ pc' = [pc EXCEPT ![t] = "st210b"]
            /\ UNCHANGED loc
  /\ UNCHANGED <<mgrVars, lockOwner, now, nextId, instVars, store, stack, budget, h, mh>>

\* Line 210, id(self.vanna_instance): the attribute is read a second time.
st210b(t) ==
  /\ pc[t] = "st210b"
  /\ loc' = [loc EXCEPT ![t].out =
               <<h[t].qc, h[t].time,
                 IF vanna_instance[K(t)] = None THEN IdOfNone ELSE vanna_instance[K(t)]>>]
  /\ pc' = [pc EXCEPT ![t] = "exit"]
  /\ UNCHANGED <<mgrVars, lockOwner, now, nextId, instVars, store, stack, budget, h, mh>>

StepStats(t) == CallGetStats(t) \/ st208(t) \/ st209(t) \/ st210(t) \/ st210b(t)

\* ------------------------------------------------- specifications
Step(t) ==
  \/ CallNew(t) \/ init38(t)
  \/ CallGetInstance(t) \/ gi57(t) \/ gi63(t) \/ cc79(t) \/ cc101(t) \/ cc107(t)
  \/ gi64(t) \/ gi67(t) \/ gi68(t) \/ gi70(t)
  \/ rs188(t) \/ rs192(t) \/ rs193(t)
  \/ CallForceReset(t)
  \/ CallGenerateSqlSafe(t) \/ gs123(t) \/ gs127(t) \/ gs127w(t) \/ gs130(t) \/ gs131(t)
  \/ gs135(t) \/ gs138(t) \/ gs142(t) \/ gs145(t) \/ gs149(t)
  \/ da154(t) \/ da250(t)
  \/ g258(t) \/ g259(t) \/ g167(t) \/ g175(t) \/ g183(t) \/ g269(t) \/ g278(t)
  \/ Exit(t)

Next == \E t \in Threads : Step(t)

\* Threads calling a constructed manager concurrently.
Spec == Init /\ [][Next]_vars

\* One thread calling a constructed manager, as often as it likes.
InitSeq ==
  /\ InitManagers
  /\ InitNoInstances
  /\ InitThreads([t \in Threads |-> IF t = "t1" THEN Unlimited ELSE 0])
  /\ loc = [t \in Threads |-> [NoLoc EXCEPT !.mref = "k1"]]

SpecSeq == InitSeq /\ [][Next]_vars

\* Nothing constructed yet: threads race from VannaManager(key) on.
InitNew ==
  /\ registry = {}
  /\ initialized = [k \in Keys |-> FALSE]
  /\ vanna_instance = [k \in Keys |-> None]
  /\ query_count = [k \in Keys |-> 0]
  /\ last_reset_time = [k \in Keys |-> 0]
  /\ lock = [k \in Keys |-> NoLock]
  /\ lockOwner = [l \in LockIds |-> NoThread]
  /\ now = 0
  /\ mh = [k \in Keys |-> NoMH]
  /\ InitNoInstances
  /\ InitThreads([t \in Threads |-> MaxOps])
  /\ loc = [t \in Threads |-> NoLoc]

NextNew ==
  \E t \in Threads :
    \/ Step(t)
    \/ init42(t) \/ init43(t) \/ init44(t) \/ init46(t) \/ init47(t)

SpecNew == InitNew /\ [][NextNew]_vars

\* get_instance has built and trained the instance of key k1 and has given
\* it to every thread; the threads call its methods concurrently.
InitIssued(b) ==
  /\ registry = Keys
  /\ initialized = [k \in Keys |-> TRUE]
  /\ vanna_instance = [k \in Keys |-> 1]
  /\ query_count = [k \in Keys |-> 0]
  /\ last_reset_time = [k \in Keys |-> 2]
  /\ lock = [k \in Keys |-> "L0"]
  /\ lockOwner = [l \in LockIds |-> NoThread]
  /\ now = 2
  /\ mh = [k \in Keys |-> [NoMH EXCEPT !.installs = 1, !.loads = Len(Catalog),
                                        !.phases = 1]]
  /\ nextId = 2
  /\ auto_train_enabled = [i \in InstIds |-> FALSE]
  /\ strict_mode = [i \in InstIds |-> i = 1]
  /\ allow_llm_to_see_data = [i \in InstIds |-> i = 1]
  /\ blocked_train_attempts = [i \in InstIds |-> 0]
  /\ store = CatalogSet
  /\ InitThreads(b)
  /\ loc = [t \in Threads |-> [NoLoc EXCEPT !.mref = "k1", !.held = 1]]

InitInst == InitIssued([t \in Threads |-> MaxOps])

StepInst(t) ==
  \/ CallTrain(t) \/ tr228(t) \/ tr228b(t) \/ tr229(t) \/ tr229w(t)
  \/ tr235(t) \/ tr138(t) \/ tr145(t)
  \/ CallEnable(t) \/ en149(t) \/ en244(t)
  \/ CallDisable(t) \/ da154(t) \/ da250(t)
  \/ CallGenerateSql(t)
  \/ g258(t) \/ g259(t) \/ g167(t) \/ g175(t) \/ g183(t) \/ g269(t) \/ g278(t)
  \/ Exit(t)

NextInst == \E t \in Threads : StepInst(t)

SpecInst == InitInst /\ [][NextInst]_vars

\* One thread that has been given the instance of key k1 calls the manager
\* and the instance in turn, one call after the other.  The store is not
\* empty, so no construction runs the training phase.
OneOps == 2 * MaxOps

InitOne == InitIssued([t \in Threads |-> IF t = "t1" THEN OneOps ELSE 0])

StepOne(t) ==
  \/ CallNew(t) \/ init38(t)
  \/ CallGetInstance(t) \/ gi57(t) \/ gi63(t) \/ cc79(t) \/ cc101(t)
  \/ gi64(t) \/ gi67(t) \/ gi68(t) \/ gi70(t)
  \/ rs188(t) \/ rs192(t) \/ rs193(t)
  \/ CallForceReset(t)
  \/ CallGenerateSqlSafe(t) \/ gs123(t) \/ gs127(t) \/ gs127w(t) \/ gs130(t) \/ gs131(t)
  \/ gs135(t) \/ gs138(t) \/ gs142(t) \/ gs145(t) \/ gs149(t)
  \/ StepInst(t)

NextOne == \E t \in Threads : StepOne(t)

SpecOne == InitOne /\ [][NextOne]_vars

\* Two threads with one call each to make, every thread that can take a
\* step eventually scheduled.  With one call each, neither the clock nor
\* the instance identifiers run out.
LiveOps == [t \in Threads |-> 1]

InitLive ==
  /\ InitManagers
  /\ InitNoInstances
  /\ InitThreads(LiveOps)
  /\ loc = [t \in Threads |-> [NoLoc EXCEPT !.mref = "k1"]]

SpecLive == InitLive /\ [][Next]_vars /\ \A t \in Threads : WF_vars(Step(t))

\* One thread making up to MaxOps calls on a constructed manager and a
\* second thread making one call beside it, get_stats included; the
\* manager's successive states are kept in the trail.
InitStats ==
  /\ registry = Keys
  /\ initialized = [k \in Keys |-> TRUE]
  /\ vanna_instance = [k \in Keys |-> None]
  /\ query_count = [k \in Keys |-> 0]
  /\ last_reset_time = [k \in Keys |-> 1]
  /\ lock = [k \in Keys |-> "L0"]
  /\ lockOwner = [l \in LockIds |-> NoThread]
  /\ now = 1
  /\ mh = [k \in Keys |-> [NoMH EXCEPT !.tracking = TRUE, !.trail = <<<<0, 1, None>>>>]]
  /\ InitNoInstances
  /\ InitThreads([t \in Threads |-> IF t = "t1" THEN MaxOps ELSE 1])
  /\ loc = [t \in Threads |-> [NoLoc EXCEPT !.mref = "k1"]]

NextStats == \E t \in Threads : Step(t) \/ StepStats(t)

SpecStats == InitStats /\ [][NextStats]_vars

\* One call of submit_prompt, on every response of up to MaxLines lines.
InitSan ==
  /\ InitManagers
  /\ InitNoInstances
  /\ InitThreads([t \in Threads |-> IF t = "t1" THEN 1 ELSE 0])
  /\ loc = [t \in Threads |-> NoLoc]

NextSan == \E t \in Threads : CallSubmitPrompt(t) \/ sp63(t) \/ Exit(t)

SpecSan == InitSan /\ [][NextSan]_vars

\* ------------------------------------------------- the claims
\* A call that is about to hand its result or its exception to the caller.
Returning(t, name) == pc[t] = "exit" /\ loc[t].op = name
Returned(t, name) == Returning(t, name) /\ loc[t].exc = ""

\* C1: for every key and every interleaving of threads that each obtain
\* VannaManager(k) and call get_instance, while no reset intervenes the
\* manager takes an instance only once and every caller receives that same
\* instance.
C1_OneInstancePerKey ==
  \A k \in Keys :
    ~mh[k].wasReset =>
      /\ mh[k].installs <= 1
      /\ \A t \in Threads :
           (K(t) = k /\ Returned(t, "get_instance")) => loc[t].held # None
      /\ \A t, u \in Threads :
           (K(t) = k /\ K(u) = k /\ loc[t].held # None /\ loc[u].held # None)
             => loc[t].held = loc[u].held

\* C2 as stated: the 51st get_instance call on an otherwise idle key returns
\* an instance other than the one the earlier calls returned.
C2_FiftyFirstGetReconstructs ==
  \A t \in Threads :
    (Returned(t, "get_instance") /\ mh[K(t)].idleGets = contamination_threshold + 1)
      => loc[t].held # mh[K(t)].idleFirst

\* C2 as amended: get_instance reconstructs when the usage counter has
\* reached 50 (it then returns a new identity); get_instance calls do not
\* advance the counter, so on an otherwise idle key every call, the 51st
\* included, returns the instance the first one returned.
C2_ReconstructsAtFiftyQueries ==
  \A t \in Threads :
    Returned(t, "get_instance") =>
      /\ (h[t].inst # None /\ h[t].qc >= contamination_threshold)
           => (loc[t].held # h[t].inst /\ loc[t].held # None /\ loc[t].held = h[t].created)
      /\ (h[t].inst # None /\ h[t].qc < contamination_threshold)
           => loc[t].held = h[t].inst
      /\ loc[t].held = mh[K(t)].idleFirst

C2_Witness ==
  \E t \in Threads :
    /\ Returned(t, "get_instance")
    /\ mh[K(t)].idleGets = contamination_threshold + 1
    /\ loc[t].held = mh[K(t)].idleFirst
    /\ loc[t].held # None

\* C3: get_instance constructs a fresh instance exactly when the manager
\* held none or the counter had reached the threshold; otherwise it returns
\* the existing instance and leaves counter and last-reset time as they
\* were.  On return the manager holds what is returned and the counter is
\* below the threshold.
C3_GetInstanceContract ==
  \A t \in Threads :
    Returned(t, "get_instance") =>
      LET k == K(t)
          fresh == h[t].inst = None \/ h[t].qc >= contamination_threshold
      IN /\ fresh <=> h[t].created # None
         /\ fresh => /\ loc[t].held = h[t].created
                     /\ loc[t].held = nextId - 1
                     /\ loc[t].held # h[t].inst
         /\ ~fresh => /\ loc[t].held = h[t].inst
                      /\ query_count[k] = h[t].qc
                      /\ last_reset_time[k] = h[t].time
         /\ loc[t].held # None
         /\ vanna_instance[k] = loc[t].held
         /\ query_count[k] < contamination_threshold

C3_Witness ==
  \E t \in Threads :
    /\ Returned(t, "get_instance")
    /\ h[t].inst # None
    /\ h[t].qc >= contamination_threshold
    /\ loc[t].held = h[t].created
    /\ query_count[K(t)] = 0

\* C4: the usage counter equals the number of generate_sql_safe calls that
\* passed the instance check since the counter was last zeroed (a call
\* between the check and the write of line 127 is not yet in it), whether
\* those calls then succeeded or failed, also with concurrent callers.
InFlight(k) ==
  Cardinality({t \in Threads : K(t) = k /\ pc[t] \in {"gs127", "gs127w"}})

C4_CounterCountsCalls ==
  \A k \in Keys : query_count[k] = mh[k].counted - InFlight(k)

C4_Witness ==
  \E t \in Threads :
    /\ Returning(t, "generate_sql_safe")
    /\ loc[t].exc = "GenError"
    /\ h[t].resets = 0
    /\ h[t].qc = 1
    /\ query_count[K(t)] = 2

\* C5: the usage counter is never negative; right after every reset
\* (threshold, contamination, error guard, forced) and right after every
\* creation it is 0 and the last-reset time has been stamped anew.
JustReset(t) ==
  /\ h[t].resets > 0
  /\ \/ pc[t] \in {"gi63", "gs145"}
     \/ Returning(t, "force_reset")
     \/ Returning(t, "generate_sql_safe")

JustCreated(t) == pc[t] = "gi70" /\ h[t].created # None

C5_ZeroAfterReset ==
  /\ \A k \in Keys : query_count[k] >= 0
  /\ \A t \in Threads :
       (JustReset(t) \/ JustCreated(t)) =>
         /\ query_count[K(t)] = 0
         /\ last_reset_time[K(t)] = now
         /\ last_reset_time[K(t)] > h[t].time
  /\ \A t \in Threads : JustReset(t) => vanna_instance[K(t)] = None

C5_Witness ==
  \E t \in Threads :
    /\ pc[t] = "gi63"
    /\ h[t].resets = 1
    /\ h[t].qc >= contamination_threshold
    /\ query_count[K(t)] = 0

\* C6: when the generator's output matches a contamination signature,
\* generate_sql_safe fails with the contaminated-result error, and by then
\* the instance has been reset: the manager no longer holds the instance it
\* held, and the counter is 0.
C6_ContaminationResets ==
  \A t \in Threads :
    (/\ Returning(t, "generate_sql_safe")
     /\ h[t].raw \in Outputs
     /\ is_contaminated_response(Text(h[t].raw)))
      => /\ loc[t].exc = "Contaminated"
         /\ vanna_instance[K(t)] # h[t].inst
         /\ vanna_instance[K(t)] = None
         /\ query_count[K(t)] = 0

C6_Witness ==
  \E t \in Threads :
    /\ Returning(t, "generate_sql_safe")
    /\ Text(h[t].raw) = OutNotAllowed
    /\ loc[t].exc = "Contaminated"
    /\ h[t].inst # None
    /\ vanna_instance[K(t)] = None

\* C7: during 10 generate_sql_safe calls in a row that fail in generation,
\* the error handler resets the instance exactly once, at the 10th failure:
\* none after the first nine, one after the tenth.
C7_ResetOnlyAtTenthFailure ==
  \A k \in Keys :
    /\ mh[k].streak < GuardPeriod => mh[k].streakResets = 0
    /\ mh[k].streak = GuardPeriod => mh[k].streakResets = 1

\* C8: generate_sql_safe on a manager without an instance fails with the
\* no-instance error, the generator is not invoked, and counter, last-reset
\* time and instance are as they were: no instance is built.
C8_NoInstanceFails ==
  \A t \in Threads :
    (Returning(t, "generate_sql_safe") /\ h[t].inst = None)
      => /\ loc[t].exc = "NoInstance"
         /\ h[t].gens = 0
         /\ vanna_instance[K(t)] = None
         /\ query_count[K(t)] = h[t].qc
         /\ last_reset_time[K(t)] = h[t].time
         /\ h[t].resets = 0

C8_Witness ==
  \E t \in Threads :
    /\ Returning(t, "generate_sql_safe")
    /\ loc[t].exc = "NoInstance"
    /\ mh[K(t)].wasReset
    /\ nextId > 1

\* C9: blank generator output makes generate_sql_safe fail with the
\* empty-result error after one invocation of the generator, and the manager
\* keeps its instance unless the error guard fires on that call (the counter
\* the call reached is a multiple of 10).
C9_EmptyResultFails ==
  \A t \in Threads :
    (Returning(t, "generate_sql_safe") /\ h[t].raw \in {"empty", "blank"})
      => /\ loc[t].exc = "Empty"
         /\ h[t].gens = 1
         /\ IF (h[t].qc + 1) % GuardPeriod = 0
              THEN vanna_instance[K(t)] = None /\ h[t].resets = 1
              ELSE vanna_instance[K(t)] = h[t].inst /\ h[t].resets = 0

C9_Witness ==
  \E t \in Threads :
    /\ Returning(t, "generate_sql_safe")
    /\ h[t].raw = "blank"
    /\ loc[t].exc = "Empty"
    /\ h[t].inst # None
    /\ vanna_instance[K(t)] = h[t].inst

C11_ForceResetClears ==
  \A t \in Threads :
    Returning(t, "force_reset") =>
      /\ loc[t].exc = ""
      /\ vanna_instance[K(t)] = None
      /\ query_count[K(t)] = 0
      /\ h[t].resets = 1
      /\ last_reset_time[K(t)] > h[t].time
      /\ (h[t].inst = None /\ h[t].qc = 0) =>
           (vanna_instance[K(t)] = h[t].inst /\ query_count[K(t)] = h[t].qc)

C11_Witness ==
  \E t \in Threads :
    /\ Returning(t, "force_reset")
    /\ h[t].inst = None
    /\ h[t].qc = 0
    /\ nextId > 1
    /\ last_reset_time[K(t)] > h[t].time
    /\ vanna_instance[K(t)] = None

\* C12: the training phase runs during a construction exactly when the
\* store is empty: while it runs the store holds the catalog entries loaded
\* so far and nothing else, and a construction never ends on an empty store.
\* Once a phase has run to its end no later construction runs another, so
\* no catalog entry is loaded twice.
Loaded(n) == {Catalog[j] : j \in 1..n}

C12_TrainingOncePerStore ==
  /\ \A t \in Threads :
       /\ pc[t] = "cc107" =>
            /\ store = Loaded(loc[t].ti - 1)
            /\ mh[K(t)].loads = loc[t].ti - 1
            /\ mh[K(t)].phases = 0
       /\ pc[t] = "gi64" => store # {}
  /\ \A k \in Keys :
       /\ mh[k].phases <= 1
       /\ mh[k].loads <= Len(Catalog)
       /\ mh[k].loads = Cardinality(store)
       /\ mh[k].phases = 1 => store = CatalogSet

C12_Witness ==
  \E t \in Threads :
    /\ pc[t] = "gi64"
    /\ h[t].inst = None
    /\ mh[K(t)].wasReset
    /\ mh[K(t)].installs = 1
    /\ mh[K(t)].phases = 1
    /\ mh[K(t)].loads = Len(Catalog)
    /\ loc[t].this > 1

\* C13: an instance the manager holds, or one a thread has received from
\* get_instance, is never half-built: its _auto_train_enabled flag is False,
\* strict mode is on, and no thread is constructing or training it.
UnderConstruction(i) ==
  \E u \in Threads : pc[u] \in {"cc101", "cc107"} /\ loc[u].this = i

Issued ==
  {vanna_instance[k] : k \in Keys} \cup {loc[t].held : t \in Threads}

C13_NoHalfBuiltInstance ==
  \A i \in Issued \ {None} :
    /\ ~auto_train_enabled[i]
    /\ strict_mode[i]
    /\ allow_llm_to_see_data[i]
    /\ ~UnderConstruction(i)

C13_Witness ==
  \E t, u \in Threads :
    /\ t # u
    /\ pc[u] = "cc107"
    /\ loc[u].ti = Len(Catalog)
    /\ auto_train_enabled[loc[u].this]
    /\ loc[u].this \notin Issued
    /\ pc[t] = "idle"
    /\ budget[t] < MaxOps
    /\ loc[t].held = None

\* C14: a train call made while strict mode is on does not write to the
\* index and adds exactly one to _blocked_train_attempts; a train call writes
\* only when enable_auto_training has switched strict mode off and neither
\* disable_auto_training nor generate_sql has switched it on again; every
\* train call that is turned away is counted.
C14_StrictTrainBlockedAndCounted ==
  \A t \in Threads :
    Returning(t, "train") =>
      LET i == loc[t].this
          counted == blocked_train_attempts[i] = h[t].blocked + 1
      IN /\ h[t].strict => (~h[t].wrote /\ counted /\ h[t].ret = 232 /\ loc[t].exc = "")
         /\ h[t].wrote => (~h[t].strict /\ h[t].flag)
         /\ (~h[t].wrote /\ loc[t].exc = "") => counted
         /\ (h[t].wrote \/ loc[t].exc # "") => blocked_train_attempts[i] = h[t].blocked

C14_Witness ==
  \E t \in Threads :
    /\ Returning(t, "train")
    /\ h[t].strict
    /\ ~h[t].wrote
    /\ LiveExamples \subseteq store
    /\ blocked_train_attempts[loc[t].this] = h[t].blocked + 1

\* C15: whenever no call is inside the manager's lock, and whenever a call
\* is about to hand its result or its exception to the caller, the manager
\* either holds an instance or has a usage counter of 0.
ManagerOps == {"get_instance", "generate_sql_safe", "force_reset"}

Consistent(k) == vanna_instance[k] = None => query_count[k] = 0

C15_ConsistentAtReturn ==
  \A k \in Keys :
    /\ Free(lock[k]) => Consistent(k)
    /\ \A t \in Threads :
         (K(t) = k /\ pc[t] = "exit" /\ loc[t].op \in ManagerOps) => Consistent(k)

C15_Witness ==
  \E t \in Threads :
    /\ Returning(t, "generate_sql_safe")
    /\ loc[t].exc = "Contaminated"
    /\ h[t].inst # None
    /\ h[t].qc > 0
    /\ vanna_instance[K(t)] = None
    /\ query_count[K(t)] = 0

\* C16: submit_prompt turns the response of four lines "Here is the SQL
\* query:", fence with sql, "SELECT 1", fence into exactly "SELECT 1".
FencedSelect == Join(<<LineHere, FenceSql, LineSelect, Fence>>)

C16_FencedSelectCleaned ==
  \A t \in Threads :
    (Returning(t, "submit_prompt") /\ h[t].raw = FencedSelect)
      => loc[t].out = LineSelect

C16_Witness ==
  \E t \in Threads :
    /\ Returning(t, "submit_prompt")
    /\ h[t].raw = FencedSelect
    /\ Len(h[t].raw) = 42
    /\ loc[t].out = LineSelect

\* C17: no operation blocks for ever.  Every call in progress returns or
\* raises, a lock that is held is released, and a thread that still has a
\* call to make gets to make it: in the end every thread has made its calls
\* and every lock is free.
Waiting(t) == pc[t] = "idle" /\ budget[t] # 0

C17_NoOperationBlocks ==
  /\ \A t \in Threads : (pc[t] # "idle") ~> (pc[t] = "idle")
  /\ \A t \in Threads : Waiting(t) ~> (budget[t] = 0)
  /\ \A l \in LockIds : (~Free(l)) ~> Free(l)
  /\ <>[](\A t \in Threads : pc[t] = "idle" /\ loc[t].mylock = NoLock)

C17_Witness ==
  \E t, u \in Threads :
    /\ t # u
    /\ pc[t] = "exit"
    /\ loc[t].exc # ""
    /\ loc[t].mylock # NoLock
    /\ lockOwner[loc[t].mylock] = t
    /\ Waiting(u)

\* C18: when the underlying generator is about to run (line 183 of
\* vanna_util.py), reached from generate_sql_safe or from generate_sql
\* called on the instance, the instance's _auto_train_enabled is False,
\* its _strict_mode is True and its allow_llm_to_see_data is True, whatever
\* the flags were when the call began.
C18_GeneratorRunsClean ==
  \A t \in Threads :
    pc[t] = "g183" =>
      /\ ~auto_train_enabled[loc[t].this]
      /\ strict_mode[loc[t].this]
      /\ allow_llm_to_see_data[loc[t].this]

C18_Witness ==
  \E t \in Threads :
    /\ pc[t] = "g183"
    /\ loc[t].op = "generate_sql"
    /\ h[t].flag
    /\ ~h[t].strict
    /\ ~auto_train_enabled[loc[t].this]
    /\ strict_mode[loc[t].this]

\* C19: a generate_sql_safe call that fails in generation is followed by a
\* reset of the error handler when, and only when, it is the 10th (20th,
\* ...) failure in a row; a failure that follows a successful call brings
\* no reset.
C19_GuardCountsErrors ==
  \A t \in Threads :
    (Returning(t, "generate_sql_safe") /\ loc[t].exc \in GenFailures)
      => (h[t].resets > 0 <=> (mh[K(t)].streak + 1) % GuardPeriod = 0)

\* The step that takes key k from Ready (instance present) to Uninitialized
\* (no instance), and the reasons thread t can have for the reset it is in.
Cleared(k) == vanna_instance[k] # None /\ vanna_instance'[k] = None

Resetting(t, name, back) ==
  pc[t] = "rs188" /\ pc'[t] = "rs192" /\ loc[t].op = name /\ Head(stack[t]) = back

ByThreshold(t) ==
  /\ Resetting(t, "get_instance", "gi63")
  /\ query_count[K(t)] >= contamination_threshold

ByContamination(t) ==
  /\ Resetting(t, "generate_sql_safe", "gs145")
  /\ is_contaminated_response(Text(loc[t].out))

ByForce(t) == Resetting(t, "force_reset", "exit")

ByGuard(t) ==
  /\ Resetting(t, "generate_sql_safe", "exit")
  /\ loc[t].exc # ""
  /\ query_count[K(t)] % GuardPeriod = 0

\* C20 as stated: an entry goes from Ready to Uninitialized only by the
\* threshold being reached, by contamination being detected or by a forced
\* reset.
C20_ClearedByThreeTriggers ==
  [][\A k \in Keys :
       Cleared(k) =>
         \E t \in Threads :
           K(t) = k /\ (ByThreshold(t) \/ ByContamination(t) \/ ByForce(t))]_vars

\* C20 as amended: an entry goes from Ready to Uninitialized only by the
\* threshold being reached, by contamination being detected, by a forced
\* reset, or by the error handler of generate_sql_safe catching an exception
\* while the counter is a multiple of 10.
C20_ClearedByFourTriggers ==
  [][\A k \in Keys :
       Cleared(k) =>
         \E t \in Threads :
           K(t) = k /\ (ByThreshold(t) \/ ByContamination(t) \/ ByForce(t) \/ ByGuard(t))]_vars

C20_Witness ==
  \E t \in Threads :
    /\ pc[t] = "rs192"
    /\ loc[t].op = "generate_sql_safe"
    /\ Head(stack[t]) = "exit"
    /\ loc[t].exc \in GenFailures
    /\ h[t].inst # None
    /\ h[t].resets = 0
    /\ vanna_instance[K(t)] = None

\* C21: a constructor call leaves a manager that a constructor has already
\* finished as it is: its lock is never replaced, its instance is dropped
\* only by _reset_instance (line 188) and a counter above 0 goes back to 0
\* only by _reset_instance (line 192).
C21_ConstructorKeepsManager ==
  [][\A k \in Keys :
       /\ initialized[k] => lock'[k] = lock[k]
       /\ Cleared(k) =>
            \E t \in Threads : K(t) = k /\ pc[t] = "rs188" /\ pc'[t] = "rs192"
       /\ (query_count[k] > 0 /\ query_count'[k] = 0) =>
            \E t \in Threads : K(t) = k /\ pc[t] = "rs192" /\ pc'[t] = "rs193"]_vars

\* C22: generate_sql of the wrapper, given what the generator handed back,
\* raises exactly when that output is blank; every other output, suspicious
\* or not, is returned as it is, and the call resets nothing.  What the
\* generator raises is raised to the caller.
C22_WrapperFailsOnlyOnBlank ==
  \A t \in Threads :
    Returning(t, "generate_sql") =>
      /\ h[t].gens = 1
      /\ h[t].resets = 0
      /\ h[t].raw = "raise" => loc[t].exc = "GenError"
      /\ h[t].raw \in Outputs =>
           /\ loc[t].exc # "" <=> IsBlank(Text(h[t].raw))
           /\ loc[t].exc # "" => loc[t].exc = "Empty"
           /\ loc[t].exc = "" => loc[t].out = h[t].raw

C22_Witness ==
  \E t \in Threads :
    /\ Returned(t, "generate_sql")
    /\ h[t].raw \in Outputs
    /\ is_suspicious(Text(h[t].raw))
    /\ ~is_contaminated_response(Text(h[t].raw))
    /\ loc[t].out = h[t].raw

\* C23 as stated: every output the wrapper flags as suspicious (it contains
\* "Error:", "Cannot", "Unable" or "Invalid") is matched by
\* _is_contaminated_response, and the generate_sql_safe call that received
\* it fails with the contaminated-result error.
C23_ScanCoversSuspicious ==
  \A t \in Threads :
    (/\ Returning(t, "generate_sql_safe")
     /\ h[t].raw \in Outputs
     /\ is_suspicious(Text(h[t].raw)))
      => /\ is_contaminated_response(Text(h[t].raw))
         /\ loc[t].exc = "Contaminated"

\* C23 as amended: of the wrapper's four phrases the manager's scan has only
\* "Error:"; an output the wrapper flags is rejected by generate_sql_safe
\* when it contains one of the manager's own signatures, and is returned as
\* a success when it contains none.
ErrorColon == <<"E","r","r","o","r",":">>

C23_ScanDecidesByOwnList ==
  \A t \in Threads :
    (/\ Returning(t, "generate_sql_safe")
     /\ h[t].raw \in Outputs
     /\ is_suspicious(Text(h[t].raw)))
      => /\ Contains(Text(h[t].raw), ErrorColon) => is_contaminated_response(Text(h[t].raw))
         /\ is_contaminated_response(Text(h[t].raw)) => loc[t].exc = "Contaminated"
         /\ ~is_contaminated_response(Text(h[t].raw)) =>
              (loc[t].exc = "" /\ loc[t].out = h[t].raw /\ h[t].resets = 0)

C23_Witness ==
  \E t \in Threads :
    /\ Returned(t, "generate_sql_safe")
    /\ Text(h[t].raw) = OutCannotFind
    /\ is_suspicious(Text(h[t].raw))
    /\ loc[t].out = h[t].raw
    /\ vanna_instance[K(t)] = h[t].inst

\* C24: for a response made of a statement of two lines ("SELECT 1",
\* "FROM t"), then a line of explanatory prose, then anything, submit_prompt
\* returns the two lines of the statement, in order, and nothing of the
\* prose or of what follows it.
Statement == <<LineSelect, LineFrom>>
ProseLines == {LineThis, LineNote}
AfterProse == UNION {[1..n -> ResponseLines] : n \in 0..(MaxLines - 3)}

C24_StatementKeptProseDropped ==
  \A t \in Threads :
    Returning(t, "submit_prompt") =>
      \A prose \in ProseLines : \A rest \in AfterProse :
        h[t].raw = Join(Statement \o <<prose>> \o rest)
          => loc[t].out = Join(Statement)

\* C25: what get_stats reports (usage count, last-reset time, instance
\* identity) is what the manager held at one instant between the call and
\* its return, whatever runs beside it; and no step of get_stats changes the
\* manager.
InCall(t) == h[t].from .. Len(mh[K(t)].trail)

C25_StatsIsSnapshot ==
  /\ [](\A t \in Threads :
          Returning(t, "get_stats") =>
            \E n \in InCall(t) : mh[K(t)].trail[n] = loc[t].out)
  /\ [][\A t \in Threads :
          (loc[t].op = "get_stats" /\ pc'[t] # pc[t])
            => UNCHANGED <<mgrVars, instVars, store>>]_vars

\* C26: no reset (threshold, contamination, error handler, force_reset)
\* changes the persisted index: a manager call that began with entries in
\* the store ends with the same entries, and a get_instance that builds the
\* instance after a reset does not run the training phase, so nothing is
\* loaded a second time.
C26_ResetKeepsStore ==
  \A t \in Threads :
    (pc[t] = "exit" /\ loc[t].op \in ManagerOps /\ h[t].store0 # {}) =>
      /\ store = h[t].store0
      /\ mh[K(t)].loads = Cardinality(store)

C26_Witness ==
  \E t \in Threads :
    /\ Returned(t, "get_instance")
    /\ mh[K(t)].wasReset
    /\ h[t].inst = None
    /\ h[t].created # None
    /\ h[t].created > 1
    /\ h[t].store0 = CatalogSet
    /\ store = CatalogSet
    /\ mh[K(t)].phases = 1

\* C27: the usage counter never exceeds contamination_threshold: between
\* two creations or resets one instance serves at most 50 generate_sql_safe
\* calls, whatever sequence of get_instance and generate_sql_safe is made.
C27_CounterAtMostThreshold ==
  \A k \in Keys : query_count[k] <= contamination_threshold

\* C28: whenever the manager holds an instance, the store that instance is
\* bound to holds the complete initialization catalog, also after a
\* get_instance call that failed during the training phase and a retry.
C28_InstanceHasWholeCatalog ==
  \A k \in Keys : vanna_instance[k] # None => CatalogSet \subseteq store

\* C29: a get_instance call that fails because the construction or the
\* training phase raised hands that error to the caller and leaves the
\* manager without an instance and with a counter of 0; the instance it
\* was building is kept by no one and has its _auto_train_enabled flag back
\* at False; and once the caller has the error the lock is free again (a
\* thread that is in no call owns no lock).
CreationErrors == {"CreateError", "TrainError"}

C29_FailedGetInstanceLeavesNothing ==
  /\ \A t \in Threads :
       (Returning(t, "get_instance") /\ loc[t].exc # "") =>
         /\ loc[t].exc \in CreationErrors
         /\ h[t].created = None
         /\ vanna_instance[K(t)] = None
         /\ query_count[K(t)] = 0
         /\ lockOwner[loc[t].mylock] = t
         /\ loc[t].exc = "TrainError" =>
              /\ loc[t].this \notin Issued
              /\ ~auto_train_enabled[loc[t].this]
              /\ strict_mode[loc[t].this]
  /\ \A t \in Threads : \A l \in LockIds : pc[t] = "idle" => lockOwner[l] # t

C29_Witness ==
  \E t \in Threads :
    /\ Returning(t, "get_instance")
    /\ loc[t].exc = "TrainError"
    /\ h[t].inst = None
    /\ loc[t].this # None
    /\ store # {}
    /\ store # CatalogSet
    /\ ~auto_train_enabled[loc[t].this]
    /\ vanna_instance[K(t)] = None

\* C30: one generate_sql_safe call runs _reset_instance at most once: after
\* the reset that a contaminated response brings, the error handler of the
\* same call does not reset again and the last-reset time is stamped once.
C30_OneResetPerCall ==
  \A t \in Threads :
    Returning(t, "generate_sql_safe") =>
      /\ h[t].resets <= 1
      /\ loc[t].exc = "Contaminated" => h[t].resets = 1

====
